---- MODULE Spec2Model ----
\* Model of hyper's HTTP/2 client connection core (src/proto/h2/client.rs):
\* handshake, the connection-driver task (conn_task) and the dispatch task
\* (ClientTask::poll), with the h2 multiplexer, the request queue, the
\* callbacks and the executor as their environment.
EXTENDS Integers, Sequences, FiniteSets, TLC

\* Number of requests the callers place on the inbound queue.
NReq == 2

Reqs == 1..NReq

\* Polls of the poll_fn wrapper that are followed step by step.
MaxPolls == 3

\* Largest window estimate the estimator hands out.
MaxWnd == 2

\* Largest body length and content-length value of a prepared request.
MaxLen == 2

\* err.reason() of a closed multiplexer: Some(NO_ERROR), Some(other), None.
Reasons == {"NO_ERROR", "PROTOCOL_ERROR", "NoReason"}

VARIABLES
    hs,             \* handshake: "init", "ok", "failed"
    adaptive,       \* config.adaptive_window
    driversSpawned, \* exec.execute(conn_task(..)) calls
    bdp,            \* ClientTask.bdp: "none", "disabled", "sampler"
    queue,          \* req_rx: queued request ids, oldest first
    producerAlive,  \* a dispatch::Sender handle still exists
    rState,         \* per request: "new","queued","discarded","failed","submitted","abandoned"
    cancelled,      \* per request: cb.is_canceled()
    dPc,            \* ClientTask: "none","suspended","running","done","dropped"
    dWakers,        \* wake-ups registered by the dispatch task's last polls
    dOutcome,       \* "none", "Shutdown", "Error"
    dVia,           \* branch that ended the dispatch task: "none","h2","queue","eof"
    h2Ready,        \* multiplexer has room for a new stream
    h2Err,          \* "open" or the closure reason poll_ready reports
    submitLog,      \* h2_tx.send_request calls, in order
    deqLog,         \* requests taken off req_rx, in order
    eosOf,          \* per request: end-of-stream flag passed to send_request ("na" before)
    pipe,           \* per request: "none","inline","spawned","done"
    resp,           \* per request: "none","waiting","delivered"
    respBdp,        \* per request: flow-control handle on the delivered body
    cbCount,        \* per request: callback invocations
    cbVal,          \* per request: "none","ok","err_none"
    connDropRefs,   \* live ConnDropRef senders
    connEof,        \* oneshot cancel_tx/conn_eof: "open","closed","sent"
    drvPc,          \* conn_task: "none","racing","draining","done"
    connResult,     \* connection-driving operation: "none","ok","err"
    errLogged,      \* debug!("connection error") ran
    connReleased,   \* conn future dropped together with the ended driver task
    wrap,           \* the poll_fn wrapper stepped on its own: position and effects of its polls
    head            \* one request taken through the header preparation of ClientTask::poll

setupVars == <<hs, adaptive, driversSpawned, bdp>>
callerVars == <<queue, producerAlive, rState, cancelled>>
dispVars == <<dPc, dWakers, dOutcome, dVia>>
muxVars == <<h2Ready, h2Err>>
logVars == <<submitLog, deqLog>>
taskVars == <<eosOf, pipe, resp, respBdp, cbCount, cbVal>>
drvVars == <<connDropRefs, connEof, drvPc, connResult, errLogged, connReleased>>
unitVars == <<wrap, head>>

vars == <<setupVars, callerVars, dispVars, muxVars, logVars, taskVars, drvVars, unitVars>>

\* The connection core before handshake has run.
InitCore ==
    /\ hs = "init"
    /\ adaptive \in BOOLEAN
    /\ driversSpawned = 0
    /\ bdp = "none"
    /\ queue = <<>>
    /\ producerAlive = TRUE
    /\ rState = [r \in Reqs |-> "new"]
    /\ cancelled = [r \in Reqs |-> FALSE]
    /\ dPc = "none"
    /\ dWakers = {}
    /\ dOutcome = "none"
    /\ dVia = "none"
    /\ h2Ready = FALSE
    /\ h2Err = "open"
    /\ submitLog = <<>>
    /\ deqLog = <<>>
    /\ eosOf = [r \in Reqs |-> "na"]
    /\ pipe = [r \in Reqs |-> "none"]
    /\ resp = [r \in Reqs |-> "none"]
    /\ respBdp = [r \in Reqs |-> "none"]
    /\ cbCount = [r \in Reqs |-> 0]
    /\ cbVal = [r \in Reqs |-> "none"]
    /\ connDropRefs = 0
    /\ connEof = "open"
    /\ drvPc = "none"
    /\ connResult = "none"
    /\ errLogged = FALSE
    /\ connReleased = FALSE

\* The poll_fn wrapper before its first poll: no estimate asked, the target
\* and the advertised window as configured at handshake (no resize yet).
WrapIdle ==
    [pc |-> "idle", n |-> 0, est |-> "none", wnd |-> {}, target |-> {},
     initial |-> {}, initialRes |-> "no", connPolled |-> FALSE,
     inner |-> "pending", result |-> "pending"]

\* No request in header preparation.
NoRequest ==
    [method |-> "none", lower |-> 0, upper |-> {}, clIn |-> {}, clOut |-> {},
     built |-> FALSE]

Init ==
    /\ InitCore
    /\ wrap = WrapIdle
    /\ head = NoRequest

\* ---------------------------------------------------------------- handshake

\* Builder::handshake(io).await.map_err(new_h2)? fails: handshake returns the
\* error before any channel, task or ClientTask exists; req_rx is dropped.
HandshakeFail ==
    /\ hs = "init"
    /\ hs' = "failed"
    /\ UNCHANGED <<unitVars, adaptive, driversSpawned, bdp, callerVars>>
    /\ UNCHANGED <<dispVars, muxVars, logVars, taskVars, drvVars>>

\* The sampler handed to the ClientTask: bdp::channel(..) or bdp::disabled().
SamplerFor(adaptiveWindow) == IF adaptiveWindow THEN "sampler" ELSE "disabled"

\* Variant of HandshakeOk whose ClientTask keeps no conn_drop_ref: the sender
\* made at handshake is dropped when handshake returns.
HandshakeOkNoTaskRef ==
    /\ hs = "init"
    /\ hs' = "ok"
    /\ driversSpawned' = driversSpawned + 1
    /\ bdp' = SamplerFor(adaptive)
    /\ connDropRefs' = 0
    /\ connEof' = "open"
    /\ drvPc' = "racing"
    /\ dPc' = "suspended"
    /\ dWakers' = {"init"}
    /\ h2Ready' \in BOOLEAN
    /\ UNCHANGED <<unitVars, adaptive, callerVars, dOutcome, dVia, h2Err>>
    /\ UNCHANGED <<logVars, taskVars, connResult, errLogged, connReleased>>

\* Variant of HandshakeOk that hands conn_task to the executor inside the
\* adaptive_window branch and once more after it.
HandshakeOkSpawnsPerBranch ==
    /\ hs = "init"
    /\ hs' = "ok"
    /\ driversSpawned' = driversSpawned + (IF adaptive THEN 2 ELSE 1)
    /\ bdp' = SamplerFor(adaptive)
    /\ connDropRefs' = 1
    /\ connEof' = "open"
    /\ drvPc' = "racing"
    /\ dPc' = "suspended"
    /\ dWakers' = {"init"}
    /\ h2Ready' \in BOOLEAN
    /\ UNCHANGED <<unitVars, adaptive, callerVars, dOutcome, dVia, h2Err>>
    /\ UNCHANGED <<logVars, taskVars, connResult, errLogged, connReleased>>

\* Handshake succeeds: the two channels are created, conn_task is handed to
\* the executor once (in either branch of adaptive_window) and the ClientTask
\* is returned holding conn_drop_ref, conn_eof, h2_tx and req_rx.
HandshakeOk ==
    /\ hs = "init"
    /\ hs' = "ok"
    /\ driversSpawned' = driversSpawned + 1
    /\ bdp' = SamplerFor(adaptive)
    /\ connDropRefs' = 1
    /\ connEof' = "open"
    /\ drvPc' = "racing"
    /\ dPc' = "suspended"
    /\ dWakers' = {"init"}
    /\ h2Ready' \in BOOLEAN
    /\ UNCHANGED <<unitVars, adaptive, callerVars, dOutcome, dVia, h2Err>>
    /\ UNCHANGED <<logVars, taskVars, connResult, errLogged, connReleased>>

\* ------------------------------------------------------- callers, multiplexer

\* A caller sends (request, callback) through a dispatch::Sender, while the
\* ClientTask that owns req_rx is there to receive it.
Enqueue(r) ==
    /\ producerAlive
    /\ dPc \in {"suspended", "running"}
    /\ rState[r] = "new"
    /\ \A q \in Reqs : q < r => rState[q] # "new"
    /\ queue' = Append(queue, r)
    /\ rState' = [rState EXCEPT ![r] = "queued"]
    /\ UNCHANGED <<producerAlive, cancelled>>
    /\ UNCHANGED <<unitVars, setupVars, dispVars, muxVars, logVars, taskVars, drvVars>>

\* A caller drops the response future of a request still in the queue.
Cancel(r) ==
    /\ rState[r] = "queued"
    /\ ~cancelled[r]
    /\ cancelled' = [cancelled EXCEPT ![r] = TRUE]
    /\ UNCHANGED <<queue, producerAlive, rState>>
    /\ UNCHANGED <<unitVars, setupVars, dispVars, muxVars, logVars, taskVars, drvVars>>

\* The last dispatch::Sender handle is dropped.
DropProducer ==
    /\ producerAlive
    /\ producerAlive' = FALSE
    /\ UNCHANGED <<queue, rState, cancelled>>
    /\ UNCHANGED <<unitVars, setupVars, dispVars, muxVars, logVars, taskVars, drvVars>>

\* The multiplexer gains or loses room for a new stream (seen through h2_tx,
\* which lives in the ClientTask).
MuxSetReady ==
    /\ dPc \in {"suspended", "running"}
    /\ h2Err = "open"
    /\ h2Ready' = ~h2Ready
    /\ UNCHANGED h2Err
    /\ UNCHANGED <<unitVars, setupVars, callerVars, dispVars, logVars, taskVars, drvVars>>

\* The multiplexer closes for good, with or without a reason; a closed
\* multiplexer has no room for a stream.
MuxClose(reason) ==
    /\ dPc \in {"suspended", "running"}
    /\ h2Err = "open"
    /\ h2Err' = reason
    /\ h2Ready' = FALSE
    /\ UNCHANGED <<unitVars, setupVars, callerVars, dispVars, logVars, taskVars, drvVars>>

\* ------------------------------------------------------------ dispatch task
\* One action is one iteration of the loop in ClientTask::poll, from the
\* poll_ready at its top to its `continue` or `return`; an iteration has no
\* suspension point inside it.

\* Variant of PollReady that reports a multiplexer without room as ready.
PollReadyIgnoresRoom == IF h2Err # "open" THEN "Closed" ELSE "Ready"

\* self.h2_tx.poll_ready(cx), as seen by the dispatch loop.
PollReady ==
    IF h2Err # "open" THEN "Closed"
    ELSE IF h2Ready THEN "Ready" ELSE "Pending"

\* Variant of ClosedOutcome that takes a closure without a reason for a
\* graceful one.
ClosedOutcomeNoReasonGraceful(reason) ==
    IF reason \in {"NO_ERROR", "NoReason"} THEN "Shutdown" ELSE "Error"

\* Outcome of the task when poll_ready reports an error with this reason.
ClosedOutcome(reason) == IF reason = "NO_ERROR" THEN "Shutdown" ELSE "Error"

\* The task is at the top of the loop: polled by the executor while it was
\* suspended, or back there after a `continue`.
AtLoopTop == dPc \in {"suspended", "running"}

\* ready!(poll_ready) is Pending: poll returns Pending at once.
CheckReadyPending ==
    /\ AtLoopTop
    /\ PollReady = "Pending"
    /\ dPc' = "suspended"
    /\ dWakers' = {"h2"}
    /\ UNCHANGED <<dOutcome, dVia>>
    /\ UNCHANGED <<unitVars, setupVars, callerVars, muxVars, logVars, taskVars, drvVars>>

\* poll_ready is Ready(Err(err)): the task ends, Shutdown or error by reason.
CheckReadyClosed ==
    /\ AtLoopTop
    /\ PollReady = "Closed"
    /\ dPc' = "done"
    /\ dOutcome' = ClosedOutcome(h2Err)
    /\ dVia' = "h2"
    /\ dWakers' = {}
    /\ UNCHANGED <<unitVars, setupVars, callerVars, muxVars, logVars, taskVars, drvVars>>

\* Variant of DiscardCancelled without the is_canceled check taking effect:
\* the cancelled request is still handed to send_request.
DiscardCancelledStillSubmits(r) ==
    /\ AtLoopTop
    /\ PollReady = "Ready"
    /\ queue # <<>>
    /\ r = Head(queue)
    /\ cancelled[r]
    /\ queue' = Tail(queue)
    /\ deqLog' = Append(deqLog, r)
    /\ submitLog' = Append(submitLog, r)
    /\ rState' = [rState EXCEPT ![r] = "discarded"]
    /\ dPc' = "running"
    /\ dWakers' = {}
    /\ UNCHANGED <<producerAlive, cancelled, dOutcome, dVia>>
    /\ UNCHANGED <<unitVars, setupVars, muxVars, taskVars, drvVars>>

\* poll_next gave (req, cb) with cb.is_canceled(): `continue`, nothing else.
DiscardCancelled(r) ==
    /\ AtLoopTop
    /\ PollReady = "Ready"
    /\ queue # <<>>
    /\ r = Head(queue)
    /\ cancelled[r]
    /\ queue' = Tail(queue)
    /\ deqLog' = Append(deqLog, r)
    /\ rState' = [rState EXCEPT ![r] = "discarded"]
    /\ dPc' = "running"
    /\ dWakers' = {}
    /\ UNCHANGED <<producerAlive, cancelled, dOutcome, dVia, submitLog>>
    /\ UNCHANGED <<unitVars, setupVars, muxVars, taskVars, drvVars>>

\* Variant of SubmitFailed without the `continue`: the error is sent to the
\* callback and the response-delivery task is spawned all the same.
SubmitFailedNoContinue(r) ==
    /\ AtLoopTop
    /\ PollReady = "Ready"
    /\ queue # <<>>
    /\ r = Head(queue)
    /\ ~cancelled[r]
    /\ queue' = Tail(queue)
    /\ deqLog' = Append(deqLog, r)
    /\ submitLog' = Append(submitLog, r)
    /\ rState' = [rState EXCEPT ![r] = "failed"]
    /\ cbCount' = [cbCount EXCEPT ![r] = @ + 1]
    /\ cbVal' = [cbVal EXCEPT ![r] = "err_none"]
    /\ resp' = [resp EXCEPT ![r] = "waiting"]
    /\ dPc' = "running"
    /\ dWakers' = {}
    /\ UNCHANGED <<producerAlive, cancelled, dOutcome, dVia>>
    /\ UNCHANGED <<eosOf, pipe, respBdp>>
    /\ UNCHANGED <<unitVars, setupVars, muxVars, drvVars>>

\* Variant of SubmitFailed that returns the error from poll (as `?` would)
\* instead of sending it to the callback and continuing.
SubmitFailedEndsTask(r) ==
    /\ AtLoopTop
    /\ PollReady = "Ready"
    /\ queue # <<>>
    /\ r = Head(queue)
    /\ ~cancelled[r]
    /\ queue' = Tail(queue)
    /\ deqLog' = Append(deqLog, r)
    /\ submitLog' = Append(submitLog, r)
    /\ rState' = [rState EXCEPT ![r] = "failed"]
    /\ dPc' = "done"
    /\ dOutcome' = "Error"
    /\ dVia' = "h2"
    /\ dWakers' = {}
    /\ UNCHANGED <<producerAlive, cancelled>>
    /\ UNCHANGED <<unitVars, setupVars, muxVars, taskVars, drvVars>>

\* send_request returned Err: cb.send(Err((err, None))) and `continue`.
SubmitFailed(r) ==
    /\ AtLoopTop
    /\ PollReady = "Ready"
    /\ queue # <<>>
    /\ r = Head(queue)
    /\ ~cancelled[r]
    /\ queue' = Tail(queue)
    /\ deqLog' = Append(deqLog, r)
    /\ submitLog' = Append(submitLog, r)
    /\ rState' = [rState EXCEPT ![r] = "failed"]
    /\ cbCount' = [cbCount EXCEPT ![r] = @ + 1]
    /\ cbVal' = [cbVal EXCEPT ![r] = "err_none"]
    /\ dPc' = "running"
    /\ dWakers' = {}
    /\ UNCHANGED <<producerAlive, cancelled, dOutcome, dVia>>
    /\ UNCHANGED <<eosOf, pipe, resp, respBdp>>
    /\ UNCHANGED <<unitVars, setupVars, muxVars, drvVars>>

\* Variant of PipeAfterSubmit without the `if !eos` test: a pipe is built and
\* polled for every submitted request.
PipeAfterSubmitIgnoresEos(eos, firstPoll) ==
    IF firstPoll = "Ready" THEN "inline" ELSE "spawned"

\* What becomes of the request body after a successful send_request: no pipe
\* when eos, a pipe finished by its first poll, or a pipe given to the executor.
PipeAfterSubmit(eos, firstPoll) ==
    IF eos THEN "none"
    ELSE IF firstPoll = "Ready" THEN "inline" ELSE "spawned"

\* Variant of RefsAfterSubmit in which the spawned pipe gets no clone.
RefsAfterSubmitNoClone(refs, pipeState) == refs

\* conn_drop_ref.clone() moved into a spawned pipe, and only there.
RefsAfterSubmit(refs, pipeState) ==
    IF pipeState = "spawned" THEN refs + 1 ELSE refs

\* Variant of SubmitOk in which the newest submission overtakes the earlier
\* ones on its way to the multiplexer.
SubmitOkOvertakes(r, eos, firstPoll, roomLeft) ==
    /\ AtLoopTop
    /\ PollReady = "Ready"
    /\ queue # <<>>
    /\ r = Head(queue)
    /\ ~cancelled[r]
    /\ queue' = Tail(queue)
    /\ deqLog' = Append(deqLog, r)
    /\ submitLog' = <<r>> \o submitLog
    /\ rState' = [rState EXCEPT ![r] = "submitted"]
    /\ eosOf' = [eosOf EXCEPT ![r] = eos]
    /\ pipe' = [pipe EXCEPT ![r] = PipeAfterSubmit(eos, firstPoll)]
    /\ connDropRefs' = RefsAfterSubmit(connDropRefs, PipeAfterSubmit(eos, firstPoll))
    /\ resp' = [resp EXCEPT ![r] = "waiting"]
    /\ h2Ready' = roomLeft
    /\ dPc' = "running"
    /\ dWakers' = {}
    /\ UNCHANGED <<producerAlive, cancelled, dOutcome, dVia>>
    /\ UNCHANGED <<respBdp, cbCount, cbVal, h2Err>>
    /\ UNCHANGED <<unitVars, setupVars, connEof, drvPc, connResult, errLogged, connReleased>>

\* send_request returned Ok((fut, body_tx)): pipe the body (first poll inline,
\* spawn if pending), spawn cb.send_when(fut), `continue`. roomLeft is whether
\* the multiplexer still has room for a stream after this one.
SubmitOk(r, eos, firstPoll, roomLeft) ==
    /\ AtLoopTop
    /\ PollReady = "Ready"
    /\ queue # <<>>
    /\ r = Head(queue)
    /\ ~cancelled[r]
    /\ queue' = Tail(queue)
    /\ deqLog' = Append(deqLog, r)
    /\ submitLog' = Append(submitLog, r)
    /\ rState' = [rState EXCEPT ![r] = "submitted"]
    /\ eosOf' = [eosOf EXCEPT ![r] = eos]
    /\ pipe' = [pipe EXCEPT ![r] = PipeAfterSubmit(eos, firstPoll)]
    /\ connDropRefs' = RefsAfterSubmit(connDropRefs, PipeAfterSubmit(eos, firstPoll))
    /\ resp' = [resp EXCEPT ![r] = "waiting"]
    /\ h2Ready' = roomLeft
    /\ dPc' = "running"
    /\ dWakers' = {}
    /\ UNCHANGED <<producerAlive, cancelled, dOutcome, dVia>>
    /\ UNCHANGED <<respBdp, cbCount, cbVal, h2Err>>
    /\ UNCHANGED <<unitVars, setupVars, connEof, drvPc, connResult, errLogged, connReleased>>

\* Variant of QueueExhausted that treats Ready(None) like Pending: it goes on
\* to poll conn_eof and ends only once the shutdown signal is closed.
QueueExhaustedPollsEof ==
    /\ AtLoopTop
    /\ PollReady = "Ready"
    /\ queue = <<>>
    /\ ~producerAlive
    /\ dPc' = IF connEof = "closed" THEN "done" ELSE "suspended"
    /\ dOutcome' = IF connEof = "closed" THEN "Shutdown" ELSE dOutcome
    /\ dVia' = IF connEof = "closed" THEN "eof" ELSE dVia
    /\ dWakers' = IF connEof = "closed" THEN {} ELSE {"queue", "eof"}
    /\ UNCHANGED <<unitVars, setupVars, callerVars, muxVars, logVars, taskVars, drvVars>>

\* Variant of QueueExhausted that takes an empty queue for a closed one while
\* a Sender is still alive (poll_next's Pending handled as Ready(None)).
QueueExhaustedWhilePending ==
    /\ AtLoopTop
    /\ PollReady = "Ready"
    /\ queue = <<>>
    /\ dPc' = "done"
    /\ dOutcome' = "Shutdown"
    /\ dVia' = "queue"
    /\ dWakers' = {}
    /\ UNCHANGED <<unitVars, setupVars, callerVars, muxVars, logVars, taskVars, drvVars>>

\* poll_next is Ready(None): every Sender is gone and the queue is empty.
QueueExhausted ==
    /\ AtLoopTop
    /\ PollReady = "Ready"
    /\ queue = <<>>
    /\ ~producerAlive
    /\ dPc' = "done"
    /\ dOutcome' = "Shutdown"
    /\ dVia' = "queue"
    /\ dWakers' = {}
    /\ UNCHANGED <<unitVars, setupVars, callerVars, muxVars, logVars, taskVars, drvVars>>

\* Variant of EofClosed that polls conn_eof before req_rx: a closed signal
\* ends the task whatever the queue holds.
EofClosedBeforeQueue ==
    /\ AtLoopTop
    /\ PollReady = "Ready"
    /\ connEof = "closed"
    /\ dPc' = "done"
    /\ dOutcome' = "Shutdown"
    /\ dVia' = "eof"
    /\ dWakers' = {}
    /\ UNCHANGED <<unitVars, setupVars, callerVars, muxVars, logVars, taskVars, drvVars>>

\* Variant of EofClosed that escalates the driver's connection error.
EofClosedEscalates ==
    /\ AtLoopTop
    /\ PollReady = "Ready"
    /\ queue = <<>>
    /\ producerAlive
    /\ connEof = "closed"
    /\ dPc' = "done"
    /\ dOutcome' = IF connResult = "err" THEN "Error" ELSE "Shutdown"
    /\ dVia' = "eof"
    /\ dWakers' = {}
    /\ UNCHANGED <<unitVars, setupVars, callerVars, muxVars, logVars, taskVars, drvVars>>

\* poll_next is Pending and conn_eof resolved with Err(Canceled): the sender
\* of the shutdown signal was dropped.
EofClosed ==
    /\ AtLoopTop
    /\ PollReady = "Ready"
    /\ queue = <<>>
    /\ producerAlive
    /\ connEof = "closed"
    /\ dPc' = "done"
    /\ dOutcome' = "Shutdown"
    /\ dVia' = "eof"
    /\ dWakers' = {}
    /\ UNCHANGED <<unitVars, setupVars, callerVars, muxVars, logVars, taskVars, drvVars>>

\* poll_next is Pending and ready!(conn_eof.poll) is Pending: poll returns
\* Pending, with the wakers of the queue and of conn_eof registered.
EofPending ==
    /\ AtLoopTop
    /\ PollReady = "Ready"
    /\ queue = <<>>
    /\ producerAlive
    /\ connEof = "open"
    /\ dPc' = "suspended"
    /\ dWakers' = {"queue", "eof"}
    /\ UNCHANGED <<dOutcome, dVia>>
    /\ UNCHANGED <<unitVars, setupVars, callerVars, muxVars, logVars, taskVars, drvVars>>

\* The owner of the ClientTask drops it (after it ended, or while it is
\* suspended): conn_drop_ref, conn_eof, h2_tx and req_rx go with it.
DropClientTask ==
    /\ dPc \in {"suspended", "done"}
    /\ dPc' = "dropped"
    /\ dWakers' = {}
    /\ connDropRefs' = connDropRefs - 1
    /\ queue' = <<>>
    /\ rState' = [r \in Reqs |-> IF rState[r] = "queued" THEN "abandoned" ELSE rState[r]]
    /\ UNCHANGED <<producerAlive, cancelled, dOutcome, dVia>>
    /\ UNCHANGED <<unitVars, setupVars, muxVars, logVars, taskVars>>
    /\ UNCHANGED <<connEof, drvPc, connResult, errLogged, connReleased>>

\* ------------------------------------------------------------ spawned tasks

\* Variant of PipeComplete whose closure does not drop the conn_drop_ref
\* clone when the pipe completes.
PipeCompleteKeepsRef(r) ==
    /\ pipe[r] = "spawned"
    /\ pipe' = [pipe EXCEPT ![r] = "done"]
    /\ UNCHANGED <<eosOf, resp, respBdp, cbCount, cbVal>>
    /\ UNCHANGED <<unitVars, setupVars, callerVars, dispVars, muxVars, logVars, drvVars>>

\* A spawned body pipe completes (its error, if any, is only logged) and the
\* closure wrapped around it drops its conn_drop_ref clone.
PipeComplete(r) ==
    /\ pipe[r] = "spawned"
    /\ pipe' = [pipe EXCEPT ![r] = "done"]
    /\ connDropRefs' = connDropRefs - 1
    /\ UNCHANGED <<eosOf, resp, respBdp, cbCount, cbVal>>
    /\ UNCHANGED <<unitVars, setupVars, callerVars, dispVars, muxVars, logVars>>
    /\ UNCHANGED <<connEof, drvPc, connResult, errLogged, connReleased>>

\* The closure mapped over the response future: Ok(res) becomes a response
\* whose body carries the bdp clone, Err(err) becomes (error, None).
ResponseMap(ok, sampler) ==
    IF ok THEN [val |-> "ok", handle |-> sampler]
    ELSE [val |-> "err_none", handle |-> "none"]

\* cb.send_when(fut): the response future resolves and its mapped result is
\* delivered to the callback.
SendWhen(r, ok) ==
    /\ resp[r] = "waiting"
    /\ resp' = [resp EXCEPT ![r] = "delivered"]
    /\ cbCount' = [cbCount EXCEPT ![r] = @ + 1]
    /\ cbVal' = [cbVal EXCEPT ![r] = ResponseMap(ok, bdp).val]
    /\ respBdp' = [respBdp EXCEPT ![r] = ResponseMap(ok, bdp).handle]
    /\ UNCHANGED <<eosOf, pipe>>
    /\ UNCHANGED <<unitVars, setupVars, callerVars, dispVars, muxVars, logVars, drvVars>>

\* ---------------------------------------------------- connection-driver task

\* One poll of the connection-driving operation. With adaptive_window the
\* poll_fn wrapper first polls the estimator; a ready window is applied with
\* set_target_window_size and set_initial_window_size(wnd)?, whose error ends
\* the poll before the connection is polled. inner is the result of
\* Pin::new(&mut conn).poll(cx): "pending", "ok" or "err".
ConnPoll(est, setOk, inner) ==
    IF est = "Ready"
    THEN IF setOk
         THEN [est |-> est, target |-> TRUE, initial |-> "ok", polled |-> TRUE, result |-> inner]
         ELSE [est |-> est, target |-> TRUE, initial |-> "err", polled |-> FALSE, result |-> "err"]
    ELSE [est |-> est, target |-> FALSE, initial |-> "no", polled |-> TRUE, result |-> inner]

\* Variant of EstResults with the poll_fn wrapper installed whatever the
\* value of adaptive_window.
EstResultsAlwaysWrapped == {"Pending", "Ready"}

\* The estimator results the wrapper can see: none without adaptive_window.
EstResults == IF adaptive THEN {"Pending", "Ready"} ELSE {"na"}

\* future::select(conn, drop_rx): conn finished (Either::Left). The task ends;
\* map_err has logged an error; cancel_tx is dropped with the task.
DriverConnDone(est, setOk, inner) ==
    LET p == ConnPoll(est, setOk, inner) IN
    /\ drvPc = "racing"
    /\ p.result # "pending"
    /\ drvPc' = "done"
    /\ connResult' = p.result
    /\ errLogged' = (p.result = "err")
    /\ connEof' = "closed"
    /\ connReleased' = TRUE
    /\ UNCHANGED connDropRefs
    /\ UNCHANGED <<unitVars, setupVars, callerVars, dispVars, muxVars, logVars, taskVars>>

\* Variant of DriverLivenessZero without drop(cancel_tx): the signal stays
\* open while the connection is drained.
DriverLivenessZeroKeepsSignal(est, setOk) ==
    LET p == ConnPoll(est, setOk, "pending") IN
    /\ drvPc = "racing"
    /\ p.result = "pending"
    /\ connDropRefs = 0
    /\ drvPc' = "draining"
    /\ UNCHANGED <<connDropRefs, connEof, connResult, errLogged, connReleased>>
    /\ UNCHANGED <<unitVars, setupVars, callerVars, dispVars, muxVars, logVars, taskVars>>

\* Variant of DriverLivenessZero without `conn.await`: the task ends, and
\* releases the connection, right after dropping the signal.
DriverLivenessZeroNoDrain(est, setOk) ==
    LET p == ConnPoll(est, setOk, "pending") IN
    /\ drvPc = "racing"
    /\ p.result = "pending"
    /\ connDropRefs = 0
    /\ drvPc' = "done"
    /\ connEof' = "closed"
    /\ connReleased' = TRUE
    /\ UNCHANGED <<connDropRefs, connResult, errLogged>>
    /\ UNCHANGED <<unitVars, setupVars, callerVars, dispVars, muxVars, logVars, taskVars>>

\* future::select: conn is pending and drop_rx resolved because every
\* ConnDropRef is gone (Either::Right): drop(cancel_tx), then conn.await.
DriverLivenessZero(est, setOk) ==
    LET p == ConnPoll(est, setOk, "pending") IN
    /\ drvPc = "racing"
    /\ p.result = "pending"
    /\ connDropRefs = 0
    /\ drvPc' = "draining"
    /\ connEof' = "closed"
    /\ UNCHANGED <<connDropRefs, connResult, errLogged, connReleased>>
    /\ UNCHANGED <<unitVars, setupVars, callerVars, dispVars, muxVars, logVars, taskVars>>

\* future::select: both conn and drop_rx are pending.
DriverRacePending(est, setOk) ==
    LET p == ConnPoll(est, setOk, "pending") IN
    /\ drvPc = "racing"
    /\ p.result = "pending"
    /\ connDropRefs > 0
    /\ UNCHANGED <<connDropRefs, connEof, drvPc, connResult, errLogged, connReleased>>
    /\ UNCHANGED <<unitVars, setupVars, callerVars, dispVars, muxVars, logVars, taskVars>>

\* `let _ = conn.await` after the signal was dropped: one more poll of conn;
\* the task ends when it completes.
DriverDrain(est, setOk, inner) ==
    LET p == ConnPoll(est, setOk, inner) IN
    /\ drvPc = "draining"
    /\ drvPc' = IF p.result = "pending" THEN "draining" ELSE "done"
    /\ connResult' = IF p.result = "pending" THEN connResult ELSE p.result
    /\ errLogged' = (errLogged \/ p.result = "err")
    /\ connReleased' = (p.result # "pending")
    /\ UNCHANGED <<connDropRefs, connEof>>
    /\ UNCHANGED <<unitVars, setupVars, callerVars, dispVars, muxVars, logVars, taskVars>>

\* The inputs of one poll that can differ in effect: set_initial_window_size
\* is called only with a ready estimate, and conn is polled only if it worked.
PollInputs ==
    {in \in EstResults \X BOOLEAN \X {"pending", "ok", "err"} :
        /\ (in[1] # "Ready" => in[2])
        /\ (in[1] = "Ready" /\ ~in[2] => in[3] = "pending")}

DriverPoll ==
    \E in \in PollInputs :
        \/ DriverConnDone(in[1], in[2], in[3])
        \/ DriverLivenessZero(in[1], in[2])
        \/ DriverRacePending(in[1], in[2])
        \/ DriverDrain(in[1], in[2], in[3])

\* ------------------------------------------------------------- specification

Next ==
    \/ HandshakeFail
    \/ HandshakeOk
    \/ \E r \in Reqs : Enqueue(r)
    \/ \E r \in Reqs : Cancel(r)
    \/ DropProducer
    \/ MuxSetReady
    \/ \E reason \in Reasons : MuxClose(reason)
    \/ CheckReadyPending
    \/ CheckReadyClosed
    \/ \E r \in Reqs : DiscardCancelled(r)
    \/ \E r \in Reqs : SubmitFailed(r)
    \/ \E r \in Reqs, eos \in BOOLEAN, firstPoll \in {"Ready", "Pending"}, roomLeft \in BOOLEAN :
           SubmitOk(r, eos, firstPoll, roomLeft)
    \/ QueueExhausted
    \/ EofClosed
    \/ EofPending
    \/ DropClientTask
    \/ \E r \in Reqs : PipeComplete(r)
    \/ \E r \in Reqs, ok \in BOOLEAN : SendWhen(r, ok)
    \/ DriverPoll

Spec == Init /\ [][Next]_vars

\* ------------------------------------------- the poll_fn wrapper, step by step

\* Window estimates the estimator can hand out.
Wnds == 1..MaxWnd

\* A poll of the wrapper starts with estimator.poll_estimate(cx): Ready(wnd)
\* goes on to the two resize calls, Pending goes straight to the connection.
\* The wrapper is polled again only while its last poll returned Pending.
WrapPollEstimate(e, w) ==
    /\ hs = "ok" /\ adaptive
    /\ wrap.pc \in {"idle", "returned"}
    /\ wrap.result = "pending"
    /\ wrap.n < MaxPolls
    /\ wrap' = [wrap EXCEPT !.pc = IF e = "Ready" THEN "setTarget" ELSE "pollConn",
                            !.n = @ + 1,
                            !.est = e,
                            !.wnd = IF e = "Ready" THEN {w} ELSE {},
                            !.initialRes = "no",
                            !.connPolled = FALSE,
                            !.inner = "pending"]
    /\ UNCHANGED <<head, setupVars, callerVars, dispVars, muxVars, logVars, taskVars, drvVars>>

\* Variant of WrapSetTarget that resizes the target window only and goes on
\* to the connection without set_initial_window_size.
WrapSetTargetOnly ==
    /\ wrap.pc = "setTarget"
    /\ wrap' = [wrap EXCEPT !.pc = "pollConn", !.target = wrap.wnd]
    /\ UNCHANGED <<head, setupVars, callerVars, dispVars, muxVars, logVars, taskVars, drvVars>>

\* conn.set_target_window_size(wnd).
WrapSetTarget ==
    /\ wrap.pc = "setTarget"
    /\ wrap' = [wrap EXCEPT !.pc = "setInitial", !.target = wrap.wnd]
    /\ UNCHANGED <<head, setupVars, callerVars, dispVars, muxVars, logVars, taskVars, drvVars>>

\* conn.set_initial_window_size(wnd)?: an error returns from the closure, and
\* so from this poll, at once.
WrapSetInitial(ok) ==
    /\ wrap.pc = "setInitial"
    /\ wrap' = IF ok
               THEN [wrap EXCEPT !.pc = "pollConn", !.initial = wrap.wnd,
                                 !.initialRes = "ok"]
               ELSE [wrap EXCEPT !.pc = "returned", !.initialRes = "err",
                                 !.result = "err"]
    /\ UNCHANGED <<head, setupVars, callerVars, dispVars, muxVars, logVars, taskVars, drvVars>>

\* Pin::new(&mut conn).poll(cx): its result is the result of the poll.
WrapPollConn(inner) ==
    /\ wrap.pc = "pollConn"
    /\ wrap' = [wrap EXCEPT !.pc = "returned", !.connPolled = TRUE,
                            !.inner = inner, !.result = inner]
    /\ UNCHANGED <<head, setupVars, callerVars, dispVars, muxVars, logVars, taskVars, drvVars>>

NextWrap ==
    \/ HandshakeFail
    \/ HandshakeOk
    \/ \E e \in {"Pending", "Ready"}, w \in Wnds : WrapPollEstimate(e, w)
    \/ WrapSetTarget
    \/ \E ok \in BOOLEAN : WrapSetInitial(ok)
    \/ \E inner \in {"pending", "ok", "err"} : WrapPollConn(inner)

SpecWrap == Init /\ [][NextWrap]_vars

\* --------------------------------------------- header preparation of a request

\* Request methods: one without and one with defined payload semantics.
Methods == {"GET", "POST"}

\* headers::method_has_defined_payload_semantics(req.method()).
MethodHasDefinedPayloadSemantics(method) == method = "POST"

\* body.size_hint().exact(): Some(lower) when the upper bound is known and
\* equal to the lower bound, None otherwise. An Option is a set of at most
\* one element.
Exact(lower, upper) == IF upper = {lower} THEN {lower} ELSE {}

\* headers::set_content_length_if_missing(req.headers_mut(), len).
SetContentLengthIfMissing(cl, len) == IF cl = {} THEN {len} ELSE cl

\* Variant of StampContentLength that looks at the length only: a zero length
\* is never stamped, whatever the method.
StampContentLengthNonZeroOnly(method, lower, upper, cl) ==
    IF Exact(lower, upper) # {} /\ lower # 0
    THEN SetContentLengthIfMissing(cl, lower)
    ELSE cl

\* The content-length header after ClientTask::poll has prepared the request:
\* if let Some(len) = exact() { if len != 0 || method_has_.. { set_.. } }.
StampContentLength(method, lower, upper, cl) ==
    IF Exact(lower, upper) # {}
    THEN LET len == CHOOSE l \in Exact(lower, upper) : TRUE IN
         IF len # 0 \/ MethodHasDefinedPayloadSemantics(method)
         THEN SetContentLengthIfMissing(cl, len)
         ELSE cl
    ELSE cl

\* The requests a caller can hand over: a method, a body size hint (lower
\* bound, optional upper bound not below it) and an optional content-length
\* header already on the request.
HeadInputs ==
    {[method |-> m, lower |-> lo, upper |-> up, clIn |-> c, clOut |-> c, built |-> FALSE] :
        m \in Methods, lo \in 0..MaxLen,
        up \in {{}} \cup {{u} : u \in 0..MaxLen},
        c \in {{}} \cup {{v} : v \in 0..MaxLen}}

InitHead ==
    /\ InitCore
    /\ wrap = WrapIdle
    /\ head \in {h \in HeadInputs : \A u \in h.upper : u >= h.lower}

\* The dequeued request is split into head and body and its headers are
\* prepared for send_request.
PrepareRequest ==
    /\ ~head.built
    /\ head' = [head EXCEPT
                   !.clOut = StampContentLength(head.method, head.lower, head.upper, head.clIn),
                   !.built = TRUE]
    /\ UNCHANGED <<wrap, setupVars, callerVars, dispVars, muxVars, logVars, taskVars, drvVars>>

NextHead == PrepareRequest

SpecHead == InitHead /\ [][NextHead]_vars

\* ------------------------------------------------------------------ properties

InLog(r, log) == \E i \in 1..Len(log) : log[i] = r

\* r was taken off the queue with its callback already cancelled (a callback
\* is only cancelled while its request is queued, so the flag is frozen).
PreCancelled(r) == InLog(r, deqLog) /\ cancelled[r]

PipesInFlight == {r \in Reqs : pipe[r] = "spawned"}

\* The dispatch task exists and has not been dropped by its owner.
DispatchHeld == dPc \in {"suspended", "running", "done"}

\* A step of the dispatch loop itself (not the owner dropping the task).
DispatchStep == dispVars' # dispVars /\ dPc' # "dropped" /\ dPc # "none"

\* C1: a request dequeued with its callback already cancelled is never passed
\* to send_request, gets no body pipe and no response-delivery task, and
\* dequeuing it leaves the loop at its top (`continue`), neither ended nor
\* suspended.
C1_CancelledNeverSubmitted ==
    /\ [](\A r \in Reqs : PreCancelled(r) =>
            /\ ~InLog(r, submitLog)
            /\ pipe[r] = "none"
            /\ resp[r] = "none")
    /\ [][\A r \in Reqs :
            (~InLog(r, deqLog) /\ InLog(r, deqLog') /\ cancelled[r]) =>
                /\ dPc' = "running"
                /\ submitLog' = submitLog
                /\ connDropRefs' = connDropRefs]_vars

C1_Witness ==
    \E r \in Reqs : PreCancelled(r) /\ dPc = "running"

\* Nothing is left to run on the connection.
EndOfLife ==
    /\ dPc = "dropped"
    /\ drvPc = "done"
    /\ PipesInFlight = {}
    /\ \A r \in Reqs : resp[r] # "waiting"

\* C2 as stated: once the connection's life is over, every request the
\* dispatch loop took off the queue has had exactly one callback invocation.
C2_ExactlyOneInvocation ==
    EndOfLife => \A r \in Reqs : InLog(r, deqLog) => cbCount[r] = 1

\* C2 amended: no callback is ever invoked twice. A request dequeued with its
\* callback already cancelled gets no invocation; one whose submission fails
\* gets exactly one, (error, None), from the dispatch loop and has no
\* response-delivery task; a submitted one gets none from the dispatch loop
\* and at most one from its one response-delivery task, carrying a response
\* or (error, None).
C2_AtMostOneInvocation ==
    \A r \in Reqs :
        /\ cbCount[r] <= 1
        /\ (cbCount[r] = 1) = (cbVal[r] # "none")
        /\ ~InLog(r, deqLog) => cbCount[r] = 0
        /\ PreCancelled(r) => cbCount[r] = 0
        /\ rState[r] = "failed" =>
              cbCount[r] = 1 /\ cbVal[r] = "err_none" /\ resp[r] = "none"
        /\ rState[r] = "submitted" =>
              /\ resp[r] # "none"
              /\ cbCount[r] = 1 => resp[r] = "delivered"
              /\ cbVal[r] \in {"none", "ok", "err_none"}

C2_Witness ==
    \E a, b \in Reqs :
        /\ rState[a] = "failed" /\ cbCount[a] = 1
        /\ rState[b] = "submitted" /\ resp[b] = "delivered" /\ cbCount[b] = 1

\* C3: an iteration that finds the multiplexer permanently closed ends the
\* task there: with Shutdown exactly when the reason is NO_ERROR, with an
\* error for any other reason and for no reason; nothing is dequeued.
C3_ClosureEndsTask ==
    [][(AtLoopTop /\ h2Err # "open" /\ DispatchStep) =>
          /\ dPc' = "done"
          /\ (h2Err = "NO_ERROR" => dOutcome' = "Shutdown")
          /\ (h2Err # "NO_ERROR" => dOutcome' = "Error")
          /\ queue' = queue
          /\ deqLog' = deqLog
          /\ submitLog' = submitLog]_vars

C3_Witness ==
    dPc = "done" /\ dVia = "h2" /\ h2Err = "NoReason" /\ dOutcome = "Error" /\ queue # <<>>

\* C4: send_request is only called in an iteration whose poll_ready returned
\* ready; an iteration whose poll_ready is pending suspends the task without
\* dequeuing, without submitting and without polling conn_eof.
C4_SubmitOnlyWhenReady ==
    [][/\ (submitLog' # submitLog => AtLoopTop /\ h2Err = "open" /\ h2Ready)
       /\ (AtLoopTop /\ h2Err = "open" /\ ~h2Ready /\ DispatchStep) =>
             /\ dPc' = "suspended"
             /\ "eof" \notin dWakers'
             /\ dVia' = dVia
             /\ dOutcome' = dOutcome
             /\ queue' = queue
             /\ deqLog' = deqLog
             /\ submitLog' = submitLog]_vars

C4_Witness ==
    /\ dPc = "suspended" /\ dWakers = {"h2"}
    /\ queue # <<>> /\ ~cancelled[Head(queue)]
    /\ Len(submitLog) = 1
    /\ connEof = "closed"

\* C5: a failed send_request sends (error, None) to that request's callback
\* and to no other, spawns no body pipe and no response-delivery task for it,
\* and leaves the task running at the top of the loop.
C5_SubmitFailure ==
    /\ [][\A r \in Reqs :
            (rState[r] # "failed" /\ rState'[r] = "failed") =>
                /\ cbCount'[r] = cbCount[r] + 1
                /\ cbVal'[r] = "err_none"
                /\ \A q \in Reqs \ {r} : cbCount'[q] = cbCount[q] /\ cbVal'[q] = cbVal[q]
                /\ pipe' = pipe
                /\ resp' = resp
                /\ connDropRefs' = connDropRefs
                /\ dPc' = "running"
                /\ dOutcome' = "none"]_vars
    /\ [](\A r \in Reqs : rState[r] = "failed" => pipe[r] = "none" /\ resp[r] = "none")

C5_Witness ==
    \E a, b \in Reqs :
        /\ a < b
        /\ rState[a] = "failed" /\ cbVal[a] = "err_none"
        /\ rState[b] = "submitted" /\ cbVal[b] = "ok"

\* The requests of log that were not pre-cancelled, in the order of log.
RECURSIVE NotCancelled(_)
NotCancelled(log) ==
    IF log = <<>> THEN <<>>
    ELSE IF cancelled[Head(log)] THEN NotCancelled(Tail(log))
    ELSE <<Head(log)>> \o NotCancelled(Tail(log))

\* C6: the send_request calls are made in the order of dequeuing: the log of
\* submissions is the log of dequeued requests without the pre-cancelled ones.
C6_SubmitInDequeueOrder ==
    submitLog = NotCancelled(deqLog)

C6_Witness ==
    /\ Len(submitLog) >= 2
    /\ pipe[submitLog[1]] = "spawned"
    /\ resp[submitLog[1]] = "waiting"
    /\ resp[submitLog[2]] = "delivered"

C8_LivenessZeroMeansIdle ==
    /\ [](drvPc = "draining" =>
            /\ PipesInFlight = {}
            /\ dPc = "dropped"
            /\ queue = <<>>)
    /\ [][dPc = "dropped" =>
            dPc' = "dropped" /\ deqLog' = deqLog /\ submitLog' = submitLog]_vars

C8_Witness ==
    /\ drvPc = "draining"
    /\ \E r \in Reqs : pipe[r] = "done"
    /\ \E r \in Reqs : rState[r] = "abandoned"

\* C9: when liveness zero wins the race, the signal is closed without a value
\* ever being sent, the driver task goes on polling the connection-driving
\* operation, and it neither ends nor releases the connection before that
\* operation has completed.
C9_DrainBeforeRelease ==
    /\ connEof # "sent"
    /\ (drvPc = "draining" =>
            connEof = "closed" /\ ~connReleased /\ connResult = "none")
    /\ (connReleased = (drvPc = "done"))
    /\ (drvPc = "done" => connResult \in {"ok", "err"} /\ connEof = "closed")
    /\ (connEof = "closed" => drvPc \in {"draining", "done"})

C9_Witness ==
    drvPc = "draining" /\ connEof = "closed" /\ \E r \in Reqs : resp[r] = "waiting"

\* C10 as stated: a dispatch task that ends after the connection-driving
\* operation has ended with an error ends with Shutdown.
C10_ConnErrorMeansShutdown ==
    [][(connResult = "err" /\ AtLoopTop /\ dPc' = "done") => dOutcome' = "Shutdown"]_vars

\* C10 amended: the driver task only logs a connection error and passes
\* nothing on: the shutdown signal closes without a value, and a dispatch task
\* that ends on the closed signal ends with Shutdown. The dispatch task ends
\* with an error only when poll_ready reports a closure whose reason is not
\* NO_ERROR, which can also happen after the connection error.
C10_ErrorOnlyFromReadiness ==
    /\ (connResult = "err" => errLogged /\ connEof = "closed" /\ drvPc = "done")
    /\ (errLogged => connResult = "err")
    /\ (dVia = "eof" => dOutcome = "Shutdown" /\ connEof = "closed")
    /\ (dVia = "queue" => dOutcome = "Shutdown")
    /\ (dOutcome = "Error" => dVia = "h2" /\ h2Err \in {"PROTOCOL_ERROR", "NoReason"})

C10_Witness ==
    connResult = "err" /\ dVia = "eof" /\ dOutcome = "Shutdown"

\* C11 as stated: on a connection that stays healthy (multiplexer open, driver
\* still racing), the dispatch task has not ended before the callbacks of all
\* submitted requests have fired and the producer handle has been dropped.
C11_EndsAfterAllCallbacks ==
    (dPc = "done" /\ h2Err = "open" /\ drvPc = "racing") =>
        /\ ~producerAlive
        /\ \A r \in Reqs : rState[r] = "submitted" => cbCount[r] = 1

\* C11 amended: while the multiplexer reports no closure and the shutdown
\* signal is open, the dispatch task does not end until the producer handle
\* has been dropped and every queued request has been dequeued; it then ends
\* with Shutdown without waiting for the callbacks of the submitted requests,
\* whose responses may still complete afterwards, in any order.
C11_EndsAfterProducerDropped ==
    /\ (dPc = "done" /\ dVia = "queue") =>
          /\ ~producerAlive
          /\ queue = <<>>
          /\ dOutcome = "Shutdown"
          /\ \A r \in Reqs : rState[r] \notin {"queued", "abandoned"}
    /\ (dPc = "done" /\ h2Err = "open" /\ connEof = "open") => dVia = "queue"
    /\ (dVia = "eof" => connEof = "closed")
    /\ (dVia = "h2" => h2Err # "open")

C11_Witness ==
    /\ dPc = "done" /\ dVia = "queue"
    /\ Len(submitLog) >= 2
    /\ resp[submitLog[1]] = "waiting"
    /\ resp[submitLog[2]] = "delivered"
    /\ cbVal[submitLog[2]] = "ok"
    /\ h2Err = "open" /\ drvPc = "racing"

\* C12: the number of connection-driver tasks handed to the scheduler is 0
\* before and after a failed handshake (which also leaves no dispatch task and
\* no driver), and exactly 1 after a successful handshake, whichever value
\* adaptive_window has and whatever operations follow.
C12_OneDriverPerHandshake ==
    /\ (hs = "init" => driversSpawned = 0)
    /\ (hs = "failed" => driversSpawned = 0 /\ dPc = "none" /\ drvPc = "none")
    /\ (hs = "ok" => driversSpawned = 1 /\ dPc # "none" /\ drvPc # "none")

C12_Witness ==
    /\ hs = "ok" /\ adaptive
    /\ driversSpawned = 1
    /\ drvPc = "draining"
    /\ dPc = "dropped"
    /\ Len(submitLog) >= 2
    /\ \E r \in Reqs : pipe[r] = "done"

\* C13: when adaptive_window is false, no poll the connection driver can make
\* issues a window-resize call (neither set_target_window_size nor
\* set_initial_window_size), the ClientTask holds the disabled sampler, and
\* every response body that has been delivered carries the disabled handle.
C13_FixedWindowNeverResized ==
    (hs = "ok" /\ ~adaptive) =>
        /\ bdp = "disabled"
        /\ \A in \in PollInputs :
              LET p == ConnPoll(in[1], in[2], in[3]) IN
              ~p.target /\ p.initial = "no"
        /\ \A r \in Reqs :
              (resp[r] = "delivered" /\ cbVal[r] = "ok") => respBdp[r] = "disabled"
        /\ \A r \in Reqs : respBdp[r] # "sampler"

C13_Witness ==
    /\ hs = "ok" /\ ~adaptive
    /\ drvPc = "done" /\ connResult = "ok"
    /\ \A r \in Reqs : resp[r] = "delivered" /\ cbVal[r] = "ok" /\ respBdp[r] = "disabled"

\* C14 as stated: with adaptive_window, every poll of the connection-driving
\* operation that has returned asked the estimator first and polled the
\* connection in that same poll, whether or not a window was applied.
C14_EveryPollReachesConn ==
    wrap.pc = "returned" => (wrap.est # "none" /\ wrap.connPolled)

\* C14 amended: with adaptive_window, every poll asks the estimator first; a
\* ready window is applied as the target window and then as the advertised
\* initial window; the connection is polled in the same poll, and its result
\* returned, unless applying the initial window failed, in which case the poll
\* returns that error without polling the connection. The poll agrees with
\* ConnPoll, the one-step form the driver task uses.
C14_PollReachesConnUnlessResizeFails ==
    /\ wrap.pc \in {"setTarget", "setInitial", "pollConn", "returned"} => wrap.est # "none"
    /\ wrap.pc \in {"setTarget", "setInitial"} => (wrap.est = "Ready" /\ ~wrap.connPolled)
    /\ wrap.connPolled => wrap.pc = "returned"
    /\ (wrap.pc = "pollConn" /\ wrap.est = "Ready") =>
          (wrap.target = wrap.wnd /\ wrap.initial = wrap.wnd /\ wrap.wnd # {})
    /\ wrap.pc = "returned" =>
          /\ (wrap.est = "Pending" => wrap.connPolled /\ wrap.initialRes = "no")
          /\ (wrap.est = "Ready" => wrap.target = wrap.wnd)
          /\ (wrap.initialRes = "ok" => wrap.connPolled /\ wrap.initial = wrap.wnd)
          /\ (wrap.initialRes = "err" => ~wrap.connPolled /\ wrap.result = "err")
          /\ (wrap.connPolled => wrap.result = wrap.inner)
          /\ LET p == ConnPoll(wrap.est, wrap.initialRes # "err", wrap.inner) IN
                /\ p.result = wrap.result
                /\ p.polled = wrap.connPolled
                /\ p.initial = wrap.initialRes
                /\ p.target = (wrap.est = "Ready")

C14_Witness ==
    /\ wrap.pc = "returned" /\ wrap.n = 2
    /\ wrap.est = "Ready" /\ wrap.initialRes = "err"
    /\ wrap.target = {2} /\ wrap.initial = {1}
    /\ ~wrap.connPolled

\* C15: for a prepared request whose body has exact length L and which had no
\* content-length header, the header is stamped with L when L > 0 or when
\* L = 0 and the method has defined payload semantics, and is left absent when
\* L = 0 and the method has none; a body without an exact length leaves the
\* headers as they were.
C15_ContentLengthStamping ==
    head.built =>
        /\ (head.clIn = {} /\ head.upper = {head.lower} /\ head.lower > 0) =>
              head.clOut = {head.lower}
        /\ (head.clIn = {} /\ head.upper = {0} /\ head.lower = 0
              /\ MethodHasDefinedPayloadSemantics(head.method)) =>
              head.clOut = {0}
        /\ (head.clIn = {} /\ head.upper = {0} /\ head.lower = 0
              /\ ~MethodHasDefinedPayloadSemantics(head.method)) =>
              head.clOut = {}
        /\ (head.upper # {head.lower}) => head.clOut = head.clIn

C15_Witness ==
    /\ head.built
    /\ head.method = "POST"
    /\ head.lower = 0 /\ head.upper = {0}
    /\ head.clIn = {} /\ head.clOut = {0}

\* The requests whose body pipe was handed to the executor.
PipesSpawned == {r \in Reqs : pipe[r] \in {"spawned", "done"}}

\* C16: a successfully submitted request has a pipe handed to the scheduler
\* exactly if its body was not at end-of-stream at submission and the first
\* synchronous poll of the pipe did not complete. A body at end-of-stream is
\* submitted with the flag set and gets no pipe; a pipe that completed on its
\* first poll is never spawned and holds no liveness reference; a pipe is
\* spawned only in the step that submits its request.
C16_PipeSpawnedIffPending ==
    /\ [](\A r \in Reqs :
            IF rState[r] = "submitted"
            THEN /\ eosOf[r] \in BOOLEAN
                 /\ (eosOf[r] => pipe[r] = "none")
                 /\ (~eosOf[r] => pipe[r] \in {"inline", "spawned", "done"})
            ELSE pipe[r] = "none" /\ eosOf[r] = "na")
    /\ [][\A r \in Reqs :
            /\ (pipe[r] = "inline" => pipe'[r] = "inline")
            /\ (r \in PipesSpawned' /\ r \notin PipesSpawned =>
                   /\ rState[r] = "queued" /\ rState'[r] = "submitted"
                   /\ eosOf'[r] = FALSE
                   /\ pipe'[r] = "spawned"
                   /\ connDropRefs' = connDropRefs + 1)
            /\ (rState[r] = "queued" /\ rState'[r] = "submitted" /\ r \notin PipesSpawned' =>
                   connDropRefs' = connDropRefs)]_vars

C16_Witness ==
    /\ Len(submitLog) = 2
    /\ rState[submitLog[1]] = "submitted" /\ eosOf[submitLog[1]] = TRUE
    /\ pipe[submitLog[1]] = "none"
    /\ pipe[submitLog[2]] = "spawned" /\ eosOf[submitLog[2]] = FALSE
    /\ connDropRefs = 2

\* C17: every spawned body pipe holds its own liveness reference from its
\* spawn until it completes and releases it exactly once, on completion.
\* While a spawned pipe is incomplete the liveness count is above zero and the
\* connection driver is not in its shutdown phase and has not dropped the
\* shutdown signal on its own account, also after the dispatch task and the
\* producer handle are gone.
C17_PipeHoldsReferenceUntilDone ==
    /\ [](PipesInFlight # {} =>
            /\ connDropRefs >= Cardinality(PipesInFlight)
            /\ connDropRefs > 0
            /\ drvPc # "draining"
            /\ (connEof = "closed" => drvPc = "done" /\ connResult # "none"))
    /\ [][/\ \A r \in Reqs :
               /\ (pipe[r] = "spawned" /\ pipe'[r] # "spawned" =>
                      pipe'[r] = "done" /\ connDropRefs' = connDropRefs - 1)
               /\ (pipe[r] = "done" => pipe'[r] = "done")
          /\ (connDropRefs' < connDropRefs =>
                 /\ connDropRefs' = connDropRefs - 1
                 /\ \/ dPc' = "dropped" /\ dPc # "dropped" /\ pipe' = pipe
                    \/ /\ dPc' = dPc
                       /\ Cardinality(PipesInFlight') = Cardinality(PipesInFlight) - 1)]_vars

C17_Witness ==
    /\ PipesInFlight # {}
    /\ \E r \in Reqs : pipe[r] = "done"
    /\ dPc = "dropped"
    /\ ~producerAlive
    /\ connDropRefs = 1
    /\ drvPc = "racing"

\* The queue has no item ready right now, and is not exhausted either.
QueuePending == queue = <<>> /\ producerAlive

\* C18: the dispatch task polls the shutdown signal (ends through it, or
\* registers for its wake-up) only in a turn in which the multiplexer
\* reported ready and the queue reported no item ready right now. With an item
\* queued and the signal closed at once, the item is dequeued and the task
\* goes on; with the queue pending and the signal closed the task ends with
\* Shutdown; with neither ready it suspends, registered for wake-up by both
\* the queue and the shutdown signal.
C18_ShutdownSignalPolledLast ==
    [][DispatchStep =>
         /\ ("eof" \in dWakers' \/ (dVia' = "eof" /\ dVia # "eof")) =>
               /\ AtLoopTop /\ PollReady = "Ready" /\ QueuePending
               /\ queue' = queue /\ deqLog' = deqLog /\ submitLog' = submitLog
         /\ (AtLoopTop /\ PollReady = "Ready" /\ queue # <<>> /\ connEof = "closed") =>
               /\ deqLog' = Append(deqLog, Head(queue))
               /\ queue' = Tail(queue)
               /\ dPc' = "running" /\ dVia' = "none" /\ dOutcome' = "none"
         /\ (AtLoopTop /\ PollReady = "Ready" /\ QueuePending /\ connEof = "closed") =>
               dPc' = "done" /\ dVia' = "eof" /\ dOutcome' = "Shutdown"
         /\ (AtLoopTop /\ PollReady = "Ready" /\ QueuePending /\ connEof = "open") =>
               dPc' = "suspended" /\ dWakers' = {"queue", "eof"} /\ dVia' = "none"]_vars

C18_Witness ==
    /\ connEof = "closed"
    /\ dPc = "running" /\ dVia = "none"
    /\ Len(deqLog) = 1 /\ Len(submitLog) = 1
    /\ queue # <<>>
    /\ PollReady = "Ready"

\* The queue is exhausted: empty, with every producer handle released.
QueueClosed == queue = <<>> /\ ~producerAlive

\* C19: in a turn in which the multiplexer reports ready and the queue is
\* exhausted with the producer fully released, the dispatch task ends with
\* Shutdown in that same turn through the queue branch, without polling the
\* shutdown signal, whatever the state of the signal, of the driver and of the
\* pipe and delivery tasks of earlier requests; an ended task that took the
\* queue branch never shows the shutdown signal among its wake-ups.
C19_ExhaustedQueueEndsTurn ==
    /\ [](dVia = "queue" =>
            /\ dPc \in {"done", "dropped"}
            /\ dOutcome = "Shutdown"
            /\ QueueClosed
            /\ "eof" \notin dWakers)
    /\ [][(DispatchStep /\ AtLoopTop /\ PollReady = "Ready" /\ QueueClosed) =>
            /\ dPc' = "done"
            /\ dOutcome' = "Shutdown"
            /\ dVia' = "queue"
            /\ dWakers' = {}
            /\ taskVars' = taskVars /\ drvVars' = drvVars]_vars

C19_Witness ==
    /\ dPc = "done" /\ dVia = "queue" /\ dOutcome = "Shutdown"
    /\ connEof = "closed"
    /\ PipesInFlight # {}
    /\ \E r \in Reqs : resp[r] = "waiting"

\* The driver dropped the shutdown signal itself, in its liveness-zero branch:
\* the signal is closed although the connection-driving operation has not
\* completed.
ExplicitSignalDrop == connEof = "closed" /\ connResult = "none"

\* C20: as long as the dispatch task exists it holds a liveness reference, so
\* the count is at least one and the driver has not taken its liveness-zero
\* branch; the driver's explicit drop of the shutdown signal is seen only once
\* the dispatch task is gone. A dispatch task that ended through the
\* shutdown-signal branch did so with Shutdown after the connection-driving
\* operation had completed and the driver task had ended.
C20_TaskHoldsReferenceWhileAlive ==
    /\ (DispatchHeld => connDropRefs >= 1 /\ drvPc \in {"racing", "done"})
    /\ (DispatchHeld /\ connEof = "closed" => drvPc = "done" /\ connResult # "none")
    /\ (ExplicitSignalDrop => dPc = "dropped" /\ connDropRefs = 0 /\ drvPc = "draining")
    /\ (dVia = "eof" =>
          /\ dOutcome = "Shutdown"
          /\ connResult \in {"ok", "err"}
          /\ drvPc = "done")

C20_Witness ==
    /\ dPc = "done" /\ dVia = "eof" /\ dOutcome = "Shutdown"
    /\ producerAlive
    /\ connDropRefs >= 1
    /\ drvPc = "done" /\ connResult = "ok"
    /\ Len(submitLog) >= 1

====
